---- MODULE Spec2Model ----
(***************************************************************************)
(* Model of the EPUB status orchestration of jplaw2epub-web-api,           *)
(* graphql/epub_resolver.go: getEpub, handleExistingStatus,                *)
(* handlePendingStatus, updateStatusTimestamp, generateSignedURL and       *)
(* triggerEpubGeneratorJob, running against a Cloud Storage bucket that    *)
(* the external generator job also writes.                                 *)
(*                                                                         *)
(* Time is counted in ticks of 1/TicksPerSecond second.  time.Now() is the *)
(* variable now; time.RFC3339 keeps whole seconds only, so formatting a    *)
(* time drops the sub-second part and parsing gives back the whole second. *)
(***************************************************************************)
EXTENDS Integers, Naturals, Sequences, FiniteSets, TLC

\* ------------------------------------------------------------------ bounds
MaxTicks == 3
MaxTasks == 1

\* --------------------------------------------------------------- constants
TicksPerSecond == 2
StaleSeconds == 300
SignedURLSeconds == 3600
StaleThreshold == StaleSeconds * TicksPerSecond

APP_VERSION == "v1.0.0"

Ids == {"L1", "L2"}
FocusId == "L1"
Procs == {"q1", "q2"}
SeqProcs == {"q1"}

\* the clock advances by half a second or by the length of the threshold
TickSteps == {1, StaleThreshold}

\* ------------------------------------------------------------ JSON values
\* A field of the decoded map[string]interface{}: missing, a JSON value that
\* is not a string, or a string.
NoStr == [kind |-> "absent", val |-> ""]
NumStr == [kind |-> "number", val |-> ""]
Str(s) == [kind |-> "string", val |-> s]

\* The createdAt field: missing, not a string, a string that is not an
\* RFC 3339 timestamp, or an RFC 3339 timestamp of the given whole second.
NoTime == [kind |-> "absent", val |-> 0]
NumTime == [kind |-> "number", val |-> 0]
BadTime == [kind |-> "string", val |-> 0]
Stamp(sec) == [kind |-> "timestamp", val |-> sec]

StatusStrings == {"PENDING", "PROCESSING", "FAILED", "COMPLETED"}
ErrorStrings == {"", "X", "Y"}
InitSeconds == {0, 1}

StatusFields == {NoStr, NumStr} \cup {Str(s) : s \in StatusStrings}
ErrorFields == {NoStr, NumStr} \cup {Str(s) : s \in ErrorStrings}
InitTimeFields == {NoTime, NumTime, BadTime} \cup {Stamp(s) : s \in InitSeconds}

\* The object at a status key: none, bytes that are not JSON, or a JSON map.
Absent == [obj |-> "absent", status |-> NoStr, createdAt |-> NoTime, error |-> NoStr]
Corrupt == [obj |-> "corrupt", status |-> NoStr, createdAt |-> NoTime, error |-> NoStr]
Json(s, c, e) == [obj |-> "json", status |-> s, createdAt |-> c, error |-> e]

InitContents ==
    {Absent, Corrupt} \cup
    {Json(s, c, e) : s \in StatusFields, c \in InitTimeFields, e \in ErrorFields}

\* A *string of the response: nil or a pointer to a value.
Nil == [set |-> FALSE, val |-> <<>>]
Ptr(v) == [set |-> TRUE, val |-> v]

\* ----------------------------------------------------------- pure helpers
epubPath(id) == <<APP_VERSION, "/", id, ".epub">>
statusPath(id) == <<APP_VERSION, "/", id, ".status">>

FormatRFC3339_otherLayout(t) == BadTime

\* time.Now().Format(time.RFC3339)
FormatRFC3339(t) == Stamp(t \div TicksPerSecond)

ParseOk_lenient(f) == f.kind \in {"timestamp", "string"}

\* time.Parse(time.RFC3339, s): ok, and the instant in ticks
ParseOk(f) == f.kind = "timestamp"
ParseRFC3339(f) == f.val * TicksPerSecond

Since_reversed(created, t) == created - t

\* time.Since(created) at time t
Since(created, t) == t - created

statusData_processing(t) == Json(Str("PROCESSING"), FormatRFC3339(t), NoStr)

\* the map written by getEpub and by updateStatusTimestamp
statusData(t) == Json(Str("PENDING"), FormatRFC3339(t), NoStr)

\* generateSignedURL(bucket, objectName, 1*time.Hour)
generateSignedURL(objectName) ==
    <<"https://storage.googleapis.com/">> \o objectName
        \o <<"?X-Goog-Expires=", SignedURLSeconds>>

statusStr_missingUnknown(rec) == IF rec.status.kind = "string" THEN rec.status.val ELSE ""

\* handleExistingStatus, lines 96-100
statusStr(rec) == IF rec.status.kind = "string" THEN rec.status.val ELSE "PENDING"

epubStatus_passthrough(s) ==
    CASE s \in {"PROCESSING", "FAILED", "COMPLETED"} -> s
      [] OTHER -> "PENDING"

\* handleExistingStatus, lines 96 and 102-110
epubStatus(s) ==
    CASE s = "PROCESSING" -> "PROCESSING"
      [] s = "FAILED" -> "FAILED"
      [] OTHER -> "PENDING"

errorMsg_omitted(rec) == Nil

\* handleExistingStatus, lines 112-115
errorMsg(rec) ==
    IF rec.error.kind = "string" /\ rec.error.val /= ""
    THEN Ptr(rec.error.val) ELSE Nil

handlePendingStatus_unparsableDispatches(rec, t) ==
    IF rec.createdAt.kind \notin {"string", "timestamp"} THEN "trigger"
    ELSE IF ~ParseOk(rec.createdAt) THEN "trigger"
    ELSE IF Since(ParseRFC3339(rec.createdAt), t) > StaleThreshold THEN "refresh"
    ELSE "none"

handlePendingStatus_atThreshold(rec, t) ==
    IF rec.createdAt.kind \notin {"string", "timestamp"} THEN "trigger"
    ELSE IF ~ParseOk(rec.createdAt) THEN "none"
    ELSE IF Since(ParseRFC3339(rec.createdAt), t) >= StaleThreshold THEN "refresh"
    ELSE "none"

handlePendingStatus_noRewrite(rec, t) ==
    IF rec.createdAt.kind \notin {"string", "timestamp"} THEN "trigger"
    ELSE IF ~ParseOk(rec.createdAt) THEN "none"
    ELSE IF Since(ParseRFC3339(rec.createdAt), t) > StaleThreshold THEN "trigger"
    ELSE "none"

handlePendingStatus_anyAge(rec, t) ==
    IF rec.createdAt.kind \notin {"string", "timestamp"} THEN "trigger"
    ELSE IF ~ParseOk(rec.createdAt) THEN "none"
    ELSE IF Since(ParseRFC3339(rec.createdAt), t) > 0 THEN "refresh"
    ELSE "none"

handlePendingStatus_missingIgnored(rec, t) ==
    IF ~ParseOk(rec.createdAt) THEN "none"
    ELSE IF Since(ParseRFC3339(rec.createdAt), t) > StaleThreshold THEN "refresh"
    ELSE "none"

\* handlePendingStatus: what it does for a decoded record at time t
\*   "trigger"  createdAt is not a string: start the job, no rewrite
\*   "refresh"  createdAt is older than the threshold: start the job, rewrite
\*   "none"     createdAt does not parse, or is not older than the threshold
handlePendingStatus(rec, t) ==
    IF rec.createdAt.kind \notin {"string", "timestamp"} THEN "trigger"
    ELSE IF ~ParseOk(rec.createdAt) THEN "none"
    ELSE IF Since(ParseRFC3339(rec.createdAt), t) > StaleThreshold THEN "refresh"
    ELSE "none"

pendingAction_anyStatus(rec, t) == handlePendingStatus(rec, t)

pendingAction_reportedPending(rec, t) ==
    IF epubStatus(statusStr(rec)) = "PENDING" THEN handlePendingStatus(rec, t) ELSE "none"

\* handleExistingStatus, lines 102-110: the pending policy runs only under
\* case "PENDING"
pendingAction(rec, t) ==
    IF statusStr(rec) = "PENDING" THEN handlePendingStatus(rec, t) ELSE "none"

\* the responses
NoResp == [kind |-> "none", id |-> "", status |-> "", signedUrl |-> Nil, error |-> Nil]
ErrResp == [kind |-> "error", id |-> "", status |-> "", signedUrl |-> Nil, error |-> Nil]
Epub(id, st, url, e) == [kind |-> "ok", id |-> id, status |-> st, signedUrl |-> url, error |-> e]

\* one storage call of a query and how it ended
Op(name, out) == [op |-> name, out |-> out]

\* ------------------------------------------------------------------ state
VARIABLES
    now,        \* time.Now(), in ticks
    ticks,      \* number of clock steps taken
    artifact,   \* id -> the object <version>/<id>.epub exists
    store,      \* id -> the object <version>/<id>.status
    tasks,      \* id -> goroutines "go triggerEpubGeneratorJob(id)" not yet run
    jobs,       \* the RunJob requests accepted by Cloud Run
    pc,         \* query -> where getEpub stands
    qid,        \* query -> the id argument
    trace,      \* query -> its storage calls and goroutine starts, in order
    seen,       \* query -> the object NewReader returned
    checkedAt,  \* query -> the time of the time.Since call
    started,    \* query -> the artifact existed when the query began
    mutated,    \* query -> a step of the query changed the status object
    written,    \* id -> the map getEpub or updateStatusTimestamp encoded into
                \*       the status object, while nobody else has replaced it
    resp,       \* query -> what getEpub returned
    cancelled   \* query -> the ctx of the request is done: the caller has gone

qvars == <<pc, qid, trace, seen, checkedAt, started, mutated, resp, cancelled>>
envvars == <<now, ticks, artifact, store, tasks, jobs, written>>
vars == <<now, ticks, artifact, store, tasks, jobs, pc, qid, trace, seen,
          checkedAt, started, mutated, resp, written, cancelled>>

\* getEpub, lines 67-70, and updateStatusTimestamp, lines 148-151: the map
\* statusData built at time t, with the whole second of its createdAt
NotWritten == [valid |-> FALSE, sec |-> 0]
Written(t) == [valid |-> TRUE, sec |-> t \div TicksPerSecond]

\* ------------------------------------------------------------------- init
InitCommon ==
    /\ now = 0
    /\ ticks = 0
    /\ tasks = [i \in Ids |-> 0]
    /\ jobs = {}
    /\ written = [i \in Ids |-> NotWritten]
    /\ pc = [q \in Procs |-> "idle"]
    /\ qid = [q \in Procs |-> FocusId]
    /\ trace = [q \in Procs |-> <<>>]
    /\ seen = [q \in Procs |-> Absent]
    /\ checkedAt = [q \in Procs |-> 0]
    /\ started = [q \in Procs |-> FALSE]
    /\ mutated = [q \in Procs |-> FALSE]
    /\ resp = [q \in Procs |-> NoResp]
    /\ cancelled = [q \in Procs |-> FALSE]

\* The bucket may hold anything under the focus id when the server starts.
Init ==
    /\ InitCommon
    /\ \E a \in BOOLEAN : artifact = [i \in Ids |-> IF i = FocusId THEN a ELSE FALSE]
    /\ \E c \in InitContents : store = [i \in Ids |-> IF i = FocusId THEN c ELSE Absent]

\* ---------------------------------------------------------------- actions
\* the outcomes of the storage calls
AttrsOutcomes(id) == (IF artifact[id] THEN {"ok"} ELSE {"notfound"}) \cup {"error"}
ReaderOutcomes(id) ==
    (IF store[id].obj = "absent" THEN {"notfound"} ELSE {"ok"}) \cup {"error"}
WriterOutcomes == {"ok", "encodeError", "closeError"}
SignOutcomes == {"ok", "error"}
ClientOutcomes == {"ok", "error"}
TriggerOutcomes == {"ok", "noProject", "clientError", "runError"}

\* getEpub, lines 39, 57, 72, and updateStatusTimestamp, line 153: Attrs,
\* NewReader and NewWriter take the ctx of the request; once it is done they
\* end with its error
ctxOutcomes(q, outs) == IF cancelled[q] THEN {"canceled"} ELSE outs

\* getEpub, line 42: "err == nil" after epubObj.Attrs
attrsFound_errorOnly(out) == out = "error"
attrsFound_inverted(out) == out /= "ok"
attrsFound_never(out) == FALSE
attrsFound(out) == out = "ok"

\* getEpub, lines 45-47: "signErr != nil" after generateSignedURL
signFails_never(sout) == FALSE
signFails(sout) == sout /= "ok"

\* getEpub, line 60: "err == nil" after statusObj.NewReader
readerOpened(out) == out = "ok"

\* triggerEpubGeneratorJob, lines 207-219: the arguments of the RunJob request
RunJobRequest_swapped(id) == [revision |-> APP_VERSION, version |-> id]
RunJobRequest(id) == [revision |-> id, version |-> APP_VERSION]

\* go triggerEpubGeneratorJob(id)
Spawn(id) == tasks' = [tasks EXCEPT ![id] = @ + 1]

Finish(q, r) ==
    /\ pc' = [pc EXCEPT ![q] = "done"]
    /\ resp' = [resp EXCEPT ![q] = r]

\* getEpub, lines 21-36: a query for id arrives; storage.NewClient
getEpub_Begin(q, id) ==
    /\ pc[q] \in {"idle", "done"}
    /\ tasks[id] < MaxTasks
    /\ qid' = [qid EXCEPT ![q] = id]
    /\ seen' = [seen EXCEPT ![q] = Absent]
    /\ checkedAt' = [checkedAt EXCEPT ![q] = 0]
    /\ started' = [started EXCEPT ![q] = artifact[id]]
    /\ mutated' = [mutated EXCEPT ![q] = FALSE]
    /\ cancelled' = [cancelled EXCEPT ![q] = FALSE]
    /\ \E out \in ClientOutcomes :
        /\ trace' = [trace EXCEPT ![q] = <<Op("client", out)>>]
        /\ IF out = "ok"
           THEN /\ pc' = [pc EXCEPT ![q] = "attrs"]
                /\ resp' = [resp EXCEPT ![q] = NoResp]
           ELSE Finish(q, ErrResp)
    /\ UNCHANGED envvars

\* getEpub, lines 38-54: epubObj.Attrs, and generateSignedURL when it
\* returned no error; any error of Attrs leads on to the status file
getEpub_Attrs(q) ==
    /\ pc[q] = "attrs"
    /\ \E out \in ctxOutcomes(q, AttrsOutcomes(qid[q])) :
        IF attrsFound(out)
        THEN \E sout \in SignOutcomes :
            /\ trace' = [trace EXCEPT ![q] = @ \o <<Op("attrs", out), Op("sign", sout)>>]
            /\ IF signFails(sout)
               THEN Finish(q, ErrResp)
               ELSE Finish(q, Epub(qid[q], "COMPLETED",
                                   Ptr(generateSignedURL(epubPath(qid[q]))), Nil))
        ELSE /\ trace' = [trace EXCEPT ![q] = Append(@, Op("attrs", out))]
             /\ pc' = [pc EXCEPT ![q] = "reader"]
             /\ UNCHANGED resp
    /\ UNCHANGED <<envvars, qid, seen, checkedAt, started, mutated, cancelled>>

\* handleExistingStatus, lines 91-94: json Decode of the object returns an error
decodeFails_never(rec) == FALSE
decodeFails(rec) == rec.obj = "corrupt"

\* handleExistingStatus with handlePendingStatus, lines 90-145, up to the
\* call of updateStatusTimestamp, for the object rec read at time now
handleExistingStatus(q, rec) ==
    LET id == qid[q]
        act == pendingAction(rec, now)
    IN  IF decodeFails(rec)
        THEN /\ trace' = [trace EXCEPT ![q] =
                            @ \o <<Op("reader", "ok"), Op("decode", "error")>>]
             /\ Finish(q, ErrResp)
             /\ UNCHANGED <<tasks, checkedAt>>
        ELSE /\ checkedAt' = [checkedAt EXCEPT ![q] = now]
             /\ CASE act = "trigger" ->
                        /\ Spawn(id)
                        /\ trace' = [trace EXCEPT ![q] =
                               @ \o <<Op("reader", "ok"), Op("go", "trigger")>>]
                        /\ Finish(q, Epub(id, epubStatus(statusStr(rec)), Nil, errorMsg(rec)))
                  [] act = "refresh" ->
                        /\ Spawn(id)
                        /\ trace' = [trace EXCEPT ![q] =
                               @ \o <<Op("reader", "ok"), Op("go", "trigger")>>]
                        /\ pc' = [pc EXCEPT ![q] = "refresh"]
                        /\ UNCHANGED resp
                  [] OTHER ->
                        /\ trace' = [trace EXCEPT ![q] = Append(@, Op("reader", "ok"))]
                        /\ Finish(q, Epub(id, epubStatus(statusStr(rec)), Nil, errorMsg(rec)))
                        /\ UNCHANGED tasks

\* getEpub, lines 56-64: statusObj.NewReader; with no error the object is
\* handled by handleExistingStatus, with any error the query goes on to
\* create the status file
getEpub_NewReader(q) ==
    /\ pc[q] = "reader"
    /\ \E out \in ctxOutcomes(q, ReaderOutcomes(qid[q])) :
        IF readerOpened(out)
        THEN /\ seen' = [seen EXCEPT ![q] = store[qid[q]]]
             /\ handleExistingStatus(q, store[qid[q]])
        ELSE /\ trace' = [trace EXCEPT ![q] = Append(@, Op("reader", out))]
             /\ pc' = [pc EXCEPT ![q] = "create"]
             /\ UNCHANGED <<seen, checkedAt, tasks, resp>>
    /\ UNCHANGED <<now, ticks, artifact, store, jobs, written, qid, started, mutated,
                   cancelled>>

\* getEpub, lines 74-79: an error of Encode or of Close ends the query
createAborts_never(out) == FALSE
createAborts_closeIgnored(out) == out = "encodeError"
createAborts(out) == out /= "ok"

\* getEpub, lines 66-77: statusObj.NewWriter replaces whatever object cur is
\* there, with no precondition
createWrite_ifAbsent(cur, t) == IF cur.obj = "absent" THEN statusData(t) ELSE cur
createWrite(cur, t) == statusData(t)

\* getEpub, lines 66-87: write the first status file, start the job
getEpub_Create(q) ==
    /\ pc[q] = "create"
    /\ \E out \in ctxOutcomes(q, WriterOutcomes) :
        /\ store' = IF out = "ok"
                    THEN [store EXCEPT ![qid[q]] = createWrite(@, now)]
                    ELSE store
        /\ written' = IF out = "ok"
                      THEN [written EXCEPT ![qid[q]] = Written(now)]
                      ELSE written
        /\ IF createAborts(out)
           THEN /\ trace' = [trace EXCEPT ![q] = Append(@, Op("write", out))]
                /\ Finish(q, ErrResp)
                /\ UNCHANGED tasks
           ELSE /\ Spawn(qid[q])
                /\ trace' = [trace EXCEPT ![q] =
                               @ \o <<Op("write", out), Op("go", "trigger")>>]
                /\ Finish(q, Epub(qid[q], "PENDING", Nil, Nil))
    /\ mutated' = [mutated EXCEPT ![q] = @ \/ store'[qid[q]] /= store[qid[q]]]
    /\ UNCHANGED <<now, ticks, artifact, jobs, qid, seen, checkedAt, started, cancelled>>

\* updateStatusTimestamp, lines 147-159, and the return of
\* handleExistingStatus, lines 112-121
updateStatusTimestamp(q) ==
    /\ pc[q] = "refresh"
    /\ \E out \in ctxOutcomes(q, WriterOutcomes) :
        /\ IF out = "ok"
           THEN /\ store' = [store EXCEPT ![qid[q]] = statusData(now)]
                /\ written' = [written EXCEPT ![qid[q]] = Written(now)]
           ELSE UNCHANGED <<store, written>>
        /\ trace' = [trace EXCEPT ![q] = Append(@, Op("write", out))]
    /\ Finish(q, Epub(qid[q], epubStatus(statusStr(seen[q])), Nil, errorMsg(seen[q])))
    /\ mutated' = [mutated EXCEPT ![q] = @ \/ store'[qid[q]] /= store[qid[q]]]
    /\ UNCHANGED <<now, ticks, artifact, tasks, jobs, qid, seen, checkedAt, started,
                   cancelled>>

triggerEpubGeneratorJob_recordsFailure(id) ==
    /\ tasks[id] > 0
    /\ tasks' = [tasks EXCEPT ![id] = @ - 1]
    /\ \E out \in TriggerOutcomes :
        IF out = "ok"
        THEN jobs' = jobs \cup {RunJobRequest(id)} /\ UNCHANGED store
        ELSE /\ store' = [store EXCEPT ![id] = Json(Str("FAILED"), NoTime, Str("X"))]
             /\ UNCHANGED jobs
    /\ UNCHANGED <<now, ticks, artifact, written, qvars>>

\* triggerEpubGeneratorJob, lines 176-229: the detached goroutine runs; each
\* failure (no project, no client, RunJob error) is logged and the goroutine
\* returns
triggerEpubGeneratorJob(id) ==
    /\ tasks[id] > 0
    /\ tasks' = [tasks EXCEPT ![id] = @ - 1]
    /\ \E out \in TriggerOutcomes :
        jobs' = IF out = "ok"
                THEN jobs \cup {RunJobRequest(id)}
                ELSE jobs
    /\ UNCHANGED <<now, ticks, artifact, store, written, qvars>>

\* time passes
Tick ==
    /\ ticks < MaxTicks
    /\ ticks' = ticks + 1
    /\ \E d \in TickSteps : now' = now + d
    /\ UNCHANGED <<artifact, store, tasks, jobs, written, qvars>>

\* what the generator job writes into the status file while it runs
JobContents == {Json(Str("PROCESSING"), NoTime, NoStr),
                Json(Str("FAILED"), NoTime, Str("X"))}

JobRuns(id) == \E j \in jobs : j.revision = id

\* the generator job reports its progress or its failure
JobWritesStatus(id) ==
    /\ JobRuns(id)
    /\ \E c \in JobContents : store' = [store EXCEPT ![id] = c]
    /\ written' = [written EXCEPT ![id] = NotWritten]
    /\ UNCHANGED <<now, ticks, artifact, tasks, jobs, qvars>>

\* the generator job uploads the EPUB
JobWritesEpub(id) ==
    /\ JobRuns(id)
    /\ ~artifact[id]
    /\ artifact' = [artifact EXCEPT ![id] = TRUE]
    /\ UNCHANGED <<now, ticks, store, tasks, jobs, written, qvars>>

Query(q, I) ==
    \/ \E id \in I : getEpub_Begin(q, id)
    \/ getEpub_Attrs(q)
    \/ getEpub_NewReader(q)
    \/ getEpub_Create(q)
    \/ updateStatusTimestamp(q)

Env ==
    \/ \E id \in Ids : triggerEpubGeneratorJob(id)
    \/ \E id \in Ids : JobWritesStatus(id)
    \/ \E id \in Ids : JobWritesEpub(id)
    \/ Tick

\* one client polling the focus id, in a bucket that may hold anything for it
Next == (\E q \in SeqProcs : Query(q, {FocusId})) \/ Env

Spec == Init /\ [][Next]_vars

\* one client polling either id, starting from an empty bucket, up to the
\* moment the requested generator jobs begin to write
InitIds ==
    /\ InitCommon
    /\ artifact = [i \in Ids |-> FALSE]
    /\ store = [i \in Ids |-> Absent]

NextIds ==
    \/ \E q \in SeqProcs : Query(q, Ids)
    \/ \E id \in Ids : triggerEpubGeneratorJob(id)
    \/ Tick

SpecIds == InitIds /\ [][NextIds]_vars

\* two clients querying the focus id at once, starting from an empty bucket,
\* up to the moment the requested generator jobs begin to write
NextRace ==
    \/ \E q \in Procs : Query(q, {FocusId})
    \/ triggerEpubGeneratorJob(FocusId)
    \/ Tick

SpecRace == InitIds /\ [][NextRace]_vars

\* the caller of a running query disconnects: net/http ends the ctx of the
\* request, which getEpub received at line 21
Cancel(q) ==
    /\ pc[q] \in {"attrs", "reader", "create", "refresh"}
    /\ ~cancelled[q]
    /\ cancelled' = [cancelled EXCEPT ![q] = TRUE]
    /\ UNCHANGED <<envvars, pc, qid, trace, seen, checkedAt, started, mutated, resp>>

\* one client polling the focus id and disconnecting at any moment, starting
\* from an empty bucket
NextCancel ==
    \/ \E q \in SeqProcs : Query(q, {FocusId})
    \/ \E q \in SeqProcs : Cancel(q)
    \/ triggerEpubGeneratorJob(FocusId)
    \/ Tick

SpecCancel == InitIds /\ [][NextCancel]_vars

\* ------------------------------------------------------------- properties
\* reading a query's record of calls
Count(t, name) == Cardinality({i \in 1..Len(t) : t[i].op = name})
Has(t, name, out) == \E i \in 1..Len(t) : t[i] = Op(name, out)
Faults == {"error", "encodeError", "closeError", "canceled"}
NoFault(t) == \A i \in 1..Len(t) : t[i].out \notin Faults

FiveMinutes == 5 * 60 * TicksPerSecond

Done(q) == pc[q] = "done"
Returns(q) == pc[q] /= "done" /\ pc'[q] = "done"

\* the record the query read: a decodable record handled as PENDING, its age
\* at the staleness check
SawPending(q) ==
    /\ Has(trace[q], "attrs", "notfound")
    /\ Has(trace[q], "reader", "ok")
    /\ seen[q].obj = "json"
    /\ seen[q].status = Str("PENDING")
SawStamp(q) == seen[q].createdAt.kind = "timestamp"
Age(q) == checkedAt[q] - seen[q].createdAt.val * TicksPerSecond

\* C1: a query that begins while the artifact of its id exists, and whose
\* storage calls do not fail, answers COMPLETED with a non-empty signed URL
\* and starts no job, whatever the status object of the id holds.
C1_ArtifactPrecedence ==
    \A q \in Procs :
        (Done(q) /\ started[q] /\ NoFault(trace[q])) =>
            /\ resp[q].kind = "ok"
            /\ resp[q].id = qid[q]
            /\ resp[q].status = "COMPLETED"
            /\ resp[q].signedUrl.set
            /\ resp[q].signedUrl.val /= <<>>
            /\ Count(trace[q], "go") = 0

\* a COMPLETED answer next to a PENDING record without createdAt
C1_Witness ==
    \E q \in Procs :
        /\ Done(q) /\ started[q] /\ NoFault(trace[q])
        /\ resp[q].status = "COMPLETED"
        /\ store[qid[q]] = Json(Str("PENDING"), NoTime, Str("X"))

\* C2: a query that finds neither artifact nor status object, and whose write
\* does not fail, answers PENDING, writes the status object once, as
\* {status PENDING, createdAt now}, and starts one job goroutine for its own
\* id; the RunJob request of a goroutine carries the goroutine's id and the
\* version tag of the storage keys.
C2_FirstQuery ==
    [][/\ \A q \in Procs :
            (/\ Returns(q)
             /\ Has(trace'[q], "attrs", "notfound")
             /\ Has(trace'[q], "reader", "notfound")
             /\ NoFault(trace'[q])) =>
                /\ resp'[q] = Epub(qid[q], "PENDING", Nil, Nil)
                /\ Count(trace'[q], "write") = 1
                /\ Count(trace'[q], "go") = 1
                /\ store' = [store EXCEPT ![qid[q]] =
                        Json(Str("PENDING"), Stamp(now \div TicksPerSecond), NoStr)]
                /\ tasks' = [tasks EXCEPT ![qid[q]] = @ + 1]
       /\ \A id \in Ids :
            tasks'[id] < tasks[id] =>
                \A j \in jobs' \ jobs :
                    /\ j.revision = id
                    /\ j.version = statusPath(id)[1]
                    /\ j.version = epubPath(id)[1]
      ]_vars

\* the first query for L2 has answered and its job has been requested
C2_Witness ==
    \E q \in Procs :
        /\ Done(q) /\ qid[q] = "L2"
        /\ trace[q] = <<Op("client", "ok"), Op("attrs", "notfound"),
                        Op("reader", "notfound"), Op("write", "ok"),
                        Op("go", "trigger")>>
        /\ resp[q].status = "PENDING"
        /\ jobs = {[revision |-> "L2", version |-> "v1.0.0"]}

\* C3: a query that reads a PENDING record whose createdAt lies more than five
\* minutes before the staleness check answers PENDING, starts one job and
\* writes the record once; the createdAt it leaves is the second of the write
\* and differs from the one it read.
C3_StalePending ==
    [][/\ \A q \in Procs :
            (/\ Returns(q)
             /\ SawPending(q)' /\ SawStamp(q)'
             /\ Age(q)' > FiveMinutes
             /\ NoFault(trace'[q])) =>
                /\ resp'[q].kind = "ok"
                /\ resp'[q].status = "PENDING"
                /\ Count(trace'[q], "go") = 1
                /\ Count(trace'[q], "write") = 1
                /\ store'[qid[q]].status = Str("PENDING")
                /\ store'[qid[q]].createdAt = Stamp(now \div TicksPerSecond)
                /\ store'[qid[q]].createdAt /= seen[q].createdAt
       /\ \A q \in Procs :
            Count(trace'[q], "go") > Count(trace[q], "go") =>
                tasks' = [tasks EXCEPT ![qid[q]] = @ + 1]
      ]_vars

\* a stale record has been rewritten
C3_Witness ==
    \E q \in Procs :
        /\ Done(q) /\ SawPending(q) /\ SawStamp(q)
        /\ Age(q) > FiveMinutes
        /\ Has(trace[q], "write", "ok")
        /\ mutated[q]

\* C4: a query that reads a PENDING record whose createdAt lies less than five
\* minutes before the staleness check answers PENDING, starts no job and
\* writes nothing.
C4_FreshPending ==
    \A q \in Procs :
        (Done(q) /\ SawPending(q) /\ SawStamp(q) /\ Age(q) < FiveMinutes) =>
            /\ resp[q].kind = "ok"
            /\ resp[q].status = "PENDING"
            /\ Count(trace[q], "go") = 0
            /\ Count(trace[q], "write") = 0
            /\ ~mutated[q]

\* a record between zero and five minutes old has been polled
C4_Witness ==
    \E q \in Procs :
        /\ Done(q) /\ SawPending(q) /\ SawStamp(q)
        /\ Age(q) > 0 /\ Age(q) < FiveMinutes
        /\ resp[q].status = "PENDING"

\* the query found no artifact and read a decodable record
SawRecord(q) ==
    /\ Has(trace[q], "attrs", "notfound")
    /\ Has(trace[q], "reader", "ok")
    /\ seen[q].obj = "json"

\* C5: a query that reads a PENDING record with no createdAt field answers
\* PENDING and starts one job, whatever the error field holds, and writes
\* nothing.
C5_MissingCreatedAt ==
    \A q \in Procs :
        (Done(q) /\ SawPending(q) /\ seen[q].createdAt.kind = "absent") =>
            /\ resp[q].kind = "ok"
            /\ resp[q].status = "PENDING"
            /\ Count(trace[q], "go") = 1
            /\ Count(trace[q], "write") = 0
            /\ ~mutated[q]

\* a record without createdAt but with an error text has been polled
C5_Witness ==
    \E q \in Procs :
        /\ Done(q) /\ SawPending(q)
        /\ seen[q].createdAt = NoTime
        /\ seen[q].error = Str("X")
        /\ Count(trace[q], "go") = 1

\* C6: a query that reads a FAILED record with a non-empty error text answers
\* FAILED with that text, starts no job and writes nothing, whatever the
\* createdAt of the record.
C6_FailedSurfaced ==
    \A q \in Procs :
        (/\ Done(q) /\ SawRecord(q)
         /\ seen[q].status = Str("FAILED")
         /\ seen[q].error.kind = "string"
         /\ seen[q].error.val /= "") =>
            /\ resp[q].kind = "ok"
            /\ resp[q].status = "FAILED"
            /\ resp[q].error.set
            /\ resp[q].error.val = seen[q].error.val
            /\ Count(trace[q], "go") = 0
            /\ Count(trace[q], "write") = 0
            /\ ~mutated[q]

\* a FAILED record without createdAt has been reported with its error Y
C6_Witness ==
    \E q \in Procs :
        /\ Done(q) /\ SawRecord(q)
        /\ seen[q] = Json(Str("FAILED"), NoTime, Str("Y"))
        /\ resp[q].status = "FAILED"
        /\ resp[q].error = Ptr("Y")

\* C7: a query that reads a PROCESSING record answers PROCESSING, starts no
\* job and writes nothing, whatever the createdAt of the record.
C7_ProcessingAsIs ==
    \A q \in Procs :
        (Done(q) /\ SawRecord(q) /\ seen[q].status = Str("PROCESSING")) =>
            /\ resp[q].kind = "ok"
            /\ resp[q].status = "PROCESSING"
            /\ Count(trace[q], "go") = 0
            /\ Count(trace[q], "write") = 0
            /\ ~mutated[q]

\* a PROCESSING record without createdAt has been reported
C7_Witness ==
    \E q \in Procs :
        /\ Done(q) /\ SawRecord(q)
        /\ seen[q].status = Str("PROCESSING")
        /\ seen[q].createdAt = NoTime
        /\ resp[q].status = "PROCESSING"

\* C8: no step of a query that began after the artifact of its id existed
\* changes a status object, and such a query returns COMPLETED, as long as
\* its storage calls do not fail.
C8_IdempotentAfterCompletion ==
    [][\A q \in Procs :
            (/\ started[q]
             /\ pc[q] \notin {"idle", "done"}
             /\ pc'[q] /= pc[q]
             /\ NoFault(trace'[q])) =>
                /\ store' = store
                /\ ~mutated'[q]
                /\ Count(trace'[q], "write") = 0
                /\ pc'[q] = "done"
                /\ resp'[q].kind = "ok"
                /\ resp'[q].status = "COMPLETED"
      ]_vars

\* a job started by an earlier query exists, the artifact exists, and a later
\* query has answered COMPLETED beside the PENDING record
C8_Witness ==
    \E q \in Procs :
        /\ Done(q) /\ started[q]
        /\ resp[q].status = "COMPLETED"
        /\ RunJobRequest(qid[q]) \in jobs
        /\ store[qid[q]].status = Str("PENDING")
        /\ store[qid[q]].createdAt.kind = "timestamp"

\* C9: a PENDING answer that starts no job is given only for a record stamped
\* within the last five minutes; so while polling goes on and the record is
\* reported as PENDING, a job is started again after every five minutes.
C9_NoPermanentPending ==
    \A q \in Procs :
        (/\ Done(q) /\ SawRecord(q)
         /\ resp[q].kind = "ok"
         /\ resp[q].status = "PENDING"
         /\ Count(trace[q], "go") = 0) =>
            /\ SawStamp(q)
            /\ Age(q) <= FiveMinutes

\* C10: in every successful response the signed URL is set exactly when the
\* status is COMPLETED.
C10_SignedUrlIffCompleted ==
    \A q \in Procs :
        (Done(q) /\ resp[q].kind = "ok") =>
            (resp[q].signedUrl.set <=> resp[q].status = "COMPLETED")

\* a record whose status text is COMPLETED, without artifact, has been
\* answered without URL
C10_Witness ==
    \E q \in Procs :
        /\ Done(q) /\ SawRecord(q)
        /\ seen[q].status = Str("COMPLETED")
        /\ resp[q].kind = "ok"
        /\ ~resp[q].signedUrl.set

\* C11: in every successful response the error is set exactly when the status
\* is FAILED.
C11_ErrorIffFailed ==
    \A q \in Procs :
        (Done(q) /\ resp[q].kind = "ok") =>
            (resp[q].error.set <=> resp[q].status = "FAILED")

\* C12: a query whose status read failed for another reason than a missing
\* object returns an error, writes nothing and starts no job.
C12_ReadFailureAborts ==
    \A q \in Procs :
        (Done(q) /\ Has(trace[q], "reader", "error")) =>
            /\ resp[q].kind = "error"
            /\ Count(trace[q], "write") = 0
            /\ Count(trace[q], "go") = 0
            /\ ~mutated[q]

\* the query went on to updateStatusTimestamp
Refreshed(q) == Has(trace[q], "reader", "ok") /\ Count(trace[q], "write") = 1

\* C14: a query whose refresh write of a stale PENDING record failed returns
\* an error.
C14_RefreshFailureAborts ==
    \A q \in Procs :
        (/\ Done(q) /\ Refreshed(q)
         /\ \/ Has(trace[q], "write", "encodeError")
            \/ Has(trace[q], "write", "closeError")) =>
            resp[q].kind = "error"


\* the query opened no status object and went on to the creation write
Creating(q) == Count(trace[q], "reader") = 1 /\ ~Has(trace[q], "reader", "ok")
WriteFailed(q) ==
    \/ Has(trace[q], "write", "encodeError")
    \/ Has(trace[q], "write", "closeError")

\* C13: a query whose creation write failed, in Encode or in Close, returns an
\* error and starts no job.
C13_CreateFailureAborts ==
    \A q \in Procs :
        (Done(q) /\ Creating(q) /\ WriteFailed(q)) =>
            /\ resp[q].kind = "error"
            /\ Count(trace[q], "go") = 0
            /\ Count(trace[q], "write") = 1

\* a first query whose Close failed: an error, and still nothing to poll
C13_Witness ==
    \E q \in Procs :
        /\ Done(q)
        /\ Has(trace[q], "reader", "notfound")
        /\ Has(trace[q], "write", "closeError")
        /\ resp[q].kind = "error"
        /\ store[qid[q]] = Absent
        /\ tasks[qid[q]] = 0

\* C15: a query that opened a status object which does not decode returns an
\* error, starts no job, writes nothing, and leaves the object as it was.
C15_CorruptRecord ==
    \A q \in Procs :
        (Done(q) /\ Has(trace[q], "reader", "ok") /\ seen[q].obj = "corrupt") =>
            /\ resp[q].kind = "error"
            /\ Count(trace[q], "go") = 0
            /\ Count(trace[q], "write") = 0
            /\ ~mutated[q]

\* a query, later than the start, that failed on an undecodable object which
\* is still there
C15_Witness ==
    \E q \in Procs :
        /\ Done(q)
        /\ Has(trace[q], "reader", "ok")
        /\ seen[q].obj = "corrupt"
        /\ resp[q].kind = "error"
        /\ store[qid[q]] = Corrupt
        /\ ticks > 0

\* a detached goroutine of id ran in this step
Dispatched(id) == tasks'[id] < tasks[id]

\* C16: the step in which a detached goroutine runs, whether RunJob was
\* accepted or the goroutine failed at any point, changes neither a response nor
\* a status object nor the course of a query; and every query that started a
\* goroutine returns PENDING, never an error.
C16_DispatchIsolated ==
    [][/\ (\E id \in Ids : Dispatched(id)) =>
            /\ UNCHANGED <<store, artifact, qvars>>
            /\ jobs' \in {jobs} \cup {jobs \cup {RunJobRequest(id)} : id \in Ids}
       /\ \A q \in Procs :
            (Returns(q) /\ Count(trace'[q], "go") > 0) =>
                /\ resp'[q].kind = "ok"
                /\ resp'[q].status = "PENDING"
      ]_vars

\* a first query answered PENDING whose goroutine has run and failed: no job
\* was accepted, the record written by the query is still there
C16_Witness ==
    \E q \in Procs :
        /\ Done(q)
        /\ Has(trace[q], "reader", "notfound")
        /\ Count(trace[q], "go") = 1
        /\ tasks[qid[q]] = 0
        /\ jobs = {}
        /\ resp[q].kind = "ok"
        /\ resp[q].status = "PENDING"
        /\ store[qid[q]].obj = "json"
        /\ store[qid[q]].status = Str("PENDING")

\* the query decoded a record
SawJson(q) == Has(trace[q], "reader", "ok") /\ seen[q].obj = "json"

\* C18: a query that decoded a record without status or without createdAt
\* returns a response, not an error; a record without status is answered
\* PENDING and gets the policy of a PENDING record: a goroutine and no write
\* when createdAt is not a string, a goroutine and a rewrite when createdAt is
\* more than 5 minutes old, neither when it is younger or does not parse.
C18_PartialRecords ==
    \A q \in Procs :
        (Done(q) /\ SawJson(q)) =>
            /\ (seen[q].status.kind = "absent" \/ seen[q].createdAt.kind = "absent") =>
                    resp[q].kind = "ok" /\ resp[q].id = qid[q]
            /\ seen[q].status.kind = "absent" =>
                /\ resp[q].status = "PENDING"
                /\ ~resp[q].signedUrl.set
                /\ LET go == Count(trace[q], "go")
                       wr == Count(trace[q], "write")
                   IN  CASE seen[q].createdAt.kind \in {"absent", "number"} ->
                                go = 1 /\ wr = 0
                         [] seen[q].createdAt.kind = "string" ->
                                go = 0 /\ wr = 0
                         [] OTHER ->
                                IF Age(q) > FiveMinutes
                                THEN go = 1 /\ wr = 1
                                ELSE go = 0 /\ wr = 0

\* a record without status and more than 5 minutes old was answered PENDING
\* and rewritten
C18_Witness ==
    \E q \in Procs :
        /\ Done(q) /\ SawJson(q)
        /\ seen[q].status.kind = "absent"
        /\ SawStamp(q)
        /\ Age(q) > FiveMinutes
        /\ Has(trace[q], "write", "ok")
        /\ resp[q].status = "PENDING"
        /\ store[qid[q]] = statusData(now)

\* a write of the query lands in this step
WriteLands(q) ==
    /\ Count(trace'[q], "write") > Count(trace[q], "write")
    /\ Has(trace'[q], "write", "ok")

\* C20: a write of a query whose storage calls did not fail never lands on a
\* status object whose status is PROCESSING or FAILED.
C20_WritesOnlyOverPending ==
    [][\A q \in Procs :
            (WriteLands(q) /\ NoFault(trace'[q])) =>
                store[qid[q]].status \notin {Str("PROCESSING"), Str("FAILED")}
      ]_vars

\* the query opens the status object in this step
Reads(q) == pc[q] = "reader" /\ Has(trace'[q], "reader", "ok")

FoundNothing(q) ==
    /\ Has(trace[q], "attrs", "notfound")
    /\ Has(trace[q], "reader", "notfound")
    /\ NoFault(trace[q])

\* two finished queries for one id that both found nothing: a status object is
\* never deleted, so each of them read before the other one wrote
RacePair(p, q) ==
    /\ p /= q
    /\ qid[p] = qid[q]
    /\ Done(p) /\ Done(q)
    /\ FoundNothing(p) /\ FoundNothing(q)

\* C17: two queries for one id that both found nothing before either wrote
\* both answer PENDING, both write once and both start a goroutine; and each
\* creation write that lands puts its own record in place of whatever is
\* there, so the record left is the one of the write that landed last.
C17_ConcurrentFirstQueries ==
    [][/\ \A p, q \in Procs :
            RacePair(p, q)' =>
                /\ resp'[p] = Epub(qid[p], "PENDING", Nil, Nil)
                /\ resp'[q] = Epub(qid[q], "PENDING", Nil, Nil)
                /\ Count(trace'[p], "write") = 1 /\ Count(trace'[q], "write") = 1
                /\ Count(trace'[p], "go") = 1 /\ Count(trace'[q], "go") = 1
       /\ \A q \in Procs :
            (WriteLands(q) /\ Has(trace'[q], "reader", "notfound")) =>
                /\ store'[qid[q]] =
                      Json(Str("PENDING"), Stamp(now \div TicksPerSecond), NoStr)
                /\ tasks'[qid[q]] = tasks[qid[q]] + 1
      ]_vars

\* both queries of a race have answered, two goroutines wait, and the record
\* left is the later one, written 5 minutes after the first
C17_Witness ==
    \E p, q \in Procs :
        /\ RacePair(p, q)
        /\ resp[p].status = "PENDING" /\ resp[q].status = "PENDING"
        /\ tasks[qid[q]] = 2
        /\ mutated[p] /\ mutated[q]
        /\ store[qid[q]] = statusData(now)
        /\ now >= StaleThreshold

\* a step of getEpub or of its goroutine, not of the generator job or the clock
OrchestratorStep == qvars' /= qvars \/ tasks' /= tasks

\* C21: a step of the orchestrator leaves every artifact alone, and leaves
\* each status object as it is or replaces it whole by {status PENDING,
\* createdAt the second of the write}, without an error field; so it writes no
\* other status and removes no status object.
C21_OnlyPendingWrites ==
    [][OrchestratorStep =>
            /\ artifact' = artifact
            /\ \A id \in Ids :
                \/ store'[id] = store[id]
                \/ store'[id] = Json(Str("PENDING"), Stamp(now \div TicksPerSecond), NoStr)
      ]_vars

\* a refresh replaced a stale record that had an error field: the field is gone
C21_Witness ==
    \E q \in Procs :
        /\ Done(q)
        /\ Has(trace[q], "reader", "ok")
        /\ Has(trace[q], "write", "ok")
        /\ seen[q].error = Str("X")
        /\ mutated[q]
        /\ store[qid[q]] = Json(Str("PENDING"), Stamp(now \div TicksPerSecond), NoStr)

\* the place of the first call named name in a trace, 0 when there is none
First(t, name) ==
    IF Count(t, name) = 0 THEN 0
    ELSE CHOOSE i \in 1..Len(t) :
            t[i].op = name /\ \A j \in 1..(i - 1) : t[j].op /= name

\* C22: at every point of a query the artifact probe comes before every status
\* read, write and goroutine start of the query, and a query whose probe found
\* the artifact makes no status read, no write and starts no goroutine.
C22_ProbeFirst ==
    \A q \in Procs :
        /\ \A i \in 1..Len(trace[q]) :
            trace[q][i].op \in {"reader", "decode", "write", "go"} =>
                (First(trace[q], "attrs") > 0 /\ First(trace[q], "attrs") < i)
        /\ Count(trace[q], "attrs") <= 1
        /\ Has(trace[q], "attrs", "ok") =>
                /\ Count(trace[q], "reader") = 0
                /\ Count(trace[q], "write") = 0
                /\ Count(trace[q], "go") = 0
                /\ pc[q] = "done"

\* the probe found the artifact next to a stale PENDING record, and the query
\* ended without reading it
C22_Witness ==
    \E q \in Procs :
        /\ Done(q)
        /\ Has(trace[q], "attrs", "ok")
        /\ Count(trace[q], "reader") = 0
        /\ store[qid[q]] = Json(Str("PENDING"), Stamp(0), NoStr)
        /\ now > StaleThreshold

\* C24: for a PENDING record with a timestamp the test is "older than 5
\* minutes", strictly, with the same 5 minutes for every id and query: at
\* exactly 5 minutes, below, and for a createdAt later than now the query
\* starts no goroutine and writes nothing; above 5 minutes it starts one
\* goroutine and rewrites once.
C24_StrictThreshold ==
    \A q \in Procs :
        (Done(q) /\ SawPending(q) /\ SawStamp(q)) =>
            /\ resp[q].kind = "ok" /\ resp[q].status = "PENDING"
            /\ IF Age(q) > FiveMinutes
               THEN /\ Count(trace[q], "go") = 1
                    /\ Count(trace[q], "write") = 1
                    /\ NoFault(trace[q]) => Has(trace[q], "write", "ok")
               ELSE /\ Count(trace[q], "go") = 0
                    /\ Count(trace[q], "write") = 0
                    /\ ~mutated[q]

\* a record exactly 5 minutes old was left alone
C24_Witness ==
    \E q \in Procs :
        /\ Done(q) /\ SawPending(q) /\ SawStamp(q)
        /\ Age(q) = FiveMinutes
        /\ Count(trace[q], "go") = 0
        /\ resp[q].status = "PENDING"
        /\ store[qid[q]] = seen[q]

\* the query starts its goroutine in this step
Dispatches(q) == Count(trace'[q], "go") > Count(trace[q], "go")

\* at the step of its write: the time at which the query started its goroutine
\* (on the refresh path the goroutine start comes first, at the staleness check)
GoTime(q) == IF Has(trace'[q], "reader", "ok") THEN checkedAt[q] ELSE now

OneSecond == TicksPerSecond

C26_UnparsableCreatedAt ==
    \A q \in Procs :
        (Done(q) /\ SawPending(q)) =>
            /\ seen[q].createdAt.kind = "string" =>
                /\ resp[q].kind = "ok" /\ resp[q].status = "PENDING"
                /\ Count(trace[q], "go") = 0
                /\ Count(trace[q], "write") = 0
                /\ ~mutated[q]
            /\ seen[q].createdAt.kind \in {"absent", "number"} =>
                /\ resp[q].kind = "ok" /\ resp[q].status = "PENDING"
                /\ Count(trace[q], "go") = 1

\* more than 10 minutes after the start the record is still there, untouched
\* and answered PENDING
C26_Witness ==
    \E q \in Procs :
        /\ Done(q) /\ SawPending(q)
        /\ seen[q] = Json(Str("PENDING"), BadTime, NoStr)
        /\ checkedAt[q] > 2 * FiveMinutes
        /\ resp[q].status = "PENDING"
        /\ store[qid[q]] = seen[q]
        /\ jobs = {} /\ tasks[qid[q]] = 0

\* the statuses the switch of handleExistingStatus has a case for
KnownStatuses == {"PENDING", "PROCESSING", "FAILED"}

\* C27: a query that found no artifact and read a record whose status is a
\* string without a case of its own answers PENDING, starts no goroutine and
\* writes nothing, whatever the createdAt of the record.
C27_UnknownStatus ==
    \A q \in Procs :
        (/\ Done(q) /\ SawJson(q)
         /\ seen[q].status.kind = "string"
         /\ seen[q].status.val \notin KnownStatuses) =>
            /\ Has(trace[q], "attrs", "notfound") \/ Has(trace[q], "attrs", "error")
            /\ resp[q].kind = "ok" /\ resp[q].status = "PENDING"
            /\ ~resp[q].signedUrl.set
            /\ Count(trace[q], "go") = 0
            /\ Count(trace[q], "write") = 0
            /\ ~mutated[q]

\* a record {status COMPLETED} without createdAt and without artifact was
\* answered PENDING and nothing was started
C27_Witness ==
    \E q \in Procs :
        /\ Done(q) /\ SawJson(q)
        /\ seen[q].status = Str("COMPLETED")
        /\ seen[q].createdAt = NoTime
        /\ ~artifact[qid[q]]
        /\ resp[q].status = "PENDING"
        /\ tasks[qid[q]] = 0 /\ jobs = {}

\* C28: a query whose artifact probe failed goes on to the status read, as if
\* the artifact were absent, and returns an error only when a later call of it
\* failed; a query whose probe succeeded and whose URL signing failed returns
\* an error with no status read, no write and no goroutine.
C28_ProbeFailureIsAbsence ==
    \A q \in Procs :
        /\ (Done(q) /\ Has(trace[q], "attrs", "error")) =>
            /\ Count(trace[q], "reader") = 1
            /\ Count(trace[q], "sign") = 0
            /\ resp[q].kind = "error" =>
                \/ Has(trace[q], "decode", "error")
                \/ WriteFailed(q)
            /\ resp[q].kind = "ok" => resp[q].status \in KnownStatuses
        /\ (Has(trace[q], "attrs", "error") /\ pc[q] /= "done") =>
                pc[q] \in {"reader", "create", "refresh"}
        /\ Has(trace[q], "sign", "error") =>
            /\ Done(q)
            /\ Has(trace[q], "attrs", "ok")
            /\ resp[q].kind = "error"
            /\ Count(trace[q], "reader") = 0
            /\ Count(trace[q], "write") = 0
            /\ Count(trace[q], "go") = 0

\* the artifact was there all along, the probe failed, and the query wrote a
\* PENDING record, started a goroutine and answered PENDING
C28_Witness ==
    \E q \in Procs :
        /\ Done(q)
        /\ started[q] /\ artifact[qid[q]]
        /\ Has(trace[q], "attrs", "error")
        /\ Has(trace[q], "write", "ok")
        /\ Count(trace[q], "go") = 1
        /\ resp[q].kind = "ok" /\ resp[q].status = "PENDING"
        /\ store[qid[q]] = statusData(now)

\* C29: on the creation path the goroutine is started after the write, and
\* only when the write succeeded, so at that moment the status object is the
\* PENDING record of the query; on the refresh path the goroutine is started
\* before the write, so it is started also when the write then fails.
C29_WriteDispatchOrder ==
    [][\A q \in Procs :
        /\ (Creating(q)' /\ Count(trace'[q], "go") > 0) =>
            /\ Has(trace'[q], "write", "ok")
            /\ First(trace'[q], "write") < First(trace'[q], "go")
        /\ (Creating(q)' /\ Dispatches(q)) =>
            /\ store'[qid[q]].obj = "json"
            /\ store'[qid[q]].status = Str("PENDING")
            /\ store'[qid[q]].createdAt = Stamp(now \div TicksPerSecond)
        /\ pc'[q] = "refresh" =>
            /\ Count(trace'[q], "go") = 1
            /\ Count(trace'[q], "write") = 0
        /\ (Has(trace'[q], "reader", "ok") /\ Count(trace'[q], "write") > 0) =>
            /\ Count(trace'[q], "go") = 1
            /\ First(trace'[q], "go") < First(trace'[q], "write")
      ]_vars

\* the refresh write failed after the goroutine was started: the goroutine
\* waits, and the record still has its old createdAt
C29_Witness ==
    \E q \in Procs :
        /\ Done(q) /\ SawPending(q) /\ SawStamp(q)
        /\ Count(trace[q], "go") = 1
        /\ Has(trace[q], "write", "closeError")
        /\ tasks[qid[q]] = 1
        /\ store[qid[q]] = seen[q]
        /\ Age(q) > FiveMinutes

\* how far a query has come
Rank(p) ==
    CASE p = "idle" -> 0
      [] p = "attrs" -> 1
      [] p = "reader" -> 2
      [] p \in {"create", "refresh"} -> 3
      [] OTHER -> 4

\* the query is between its arrival and its return
Running(q) == pc[q] \in {"attrs", "reader", "create", "refresh"}

\* the next step of a running query
StepOf(q) ==
    \/ getEpub_Attrs(q)
    \/ getEpub_NewReader(q)
    \/ getEpub_Create(q)
    \/ updateStatusTimestamp(q)

\* C30: a running query always has a next step, whatever the store holds and
\* whether or not its goroutine has run, and each step takes it further; it
\* makes at most one probe, one status read, one write and one goroutine
\* start; starting the goroutine and returning do not run it; a query whose
\* write landed has started a goroutine; and a goroutine without a landed write
\* is started only for a record handled as PENDING whose createdAt is missing
\* (absent or no string), or when the refresh write failed.
C30_BoundedQuery ==
    [][\A q \in Procs :
        /\ Running(q) => ENABLED StepOf(q)
        /\ (Running(q) /\ pc'[q] /= pc[q]) => Rank(pc'[q]) > Rank(pc[q])
        /\ Count(trace'[q], "attrs") <= 1
        /\ Count(trace'[q], "reader") <= 1
        /\ Count(trace'[q], "write") <= 1
        /\ Count(trace'[q], "go") <= 1
        /\ (Dispatches(q) \/ Returns(q)) => jobs' = jobs
        /\ Dispatches(q) => tasks'[qid[q]] = tasks[qid[q]] + 1
        /\ Has(trace'[q], "write", "ok") => Count(trace'[q], "go") = 1
        /\ (Done(q)' /\ Count(trace'[q], "go") = 1 /\ ~Has(trace'[q], "write", "ok")) =>
            /\ SawJson(q)'
            /\ epubStatus(statusStr(seen'[q])) = "PENDING"
            /\ \/ seen'[q].createdAt.kind \in {"absent", "number"}
               \/ Refreshed(q)' /\ WriteFailed(q)'
      ]_vars

\* a query has written, started its goroutine and returned, and the goroutine
\* has not run yet
C30_Witness ==
    \E q \in Procs :
        /\ Done(q)
        /\ Len(trace[q]) = 5
        /\ Has(trace[q], "write", "ok")
        /\ Count(trace[q], "go") = 1
        /\ tasks[qid[q]] = 1
        /\ jobs = {}
        /\ resp[q].status = "PENDING"

\* the caller of the query disconnects in this step
Disconnects(q) == cancelled'[q] /\ ~cancelled[q]

\* C23: the caller's disconnecting changes nothing about the goroutines
\* started and the RunJob requests accepted, a goroutine runs whether or not
\* its caller has gone, and no store call of a query ends with the error of a
\* cancelled request.
C23_CancellationHarmless ==
    [][\A q \in Procs :
        /\ Disconnects(q) => UNCHANGED <<tasks, jobs, store, artifact>>
        /\ (cancelled[q] /\ tasks[qid[q]] > 0) => ENABLED triggerEpubGeneratorJob(qid[q])
        /\ \A i \in 1..Len(trace'[q]) :
            trace'[q][i].op \in {"attrs", "reader", "write"} =>
                trace'[q][i].out /= "canceled"
      ]_vars

====
